---- MODULE Spec2Model ----
(***************************************************************************)
(* Model of surrogate_models/corrupt_models.py: the script that loads a    *)
(* deployed model, draws one Gaussian noise tensor per parameter and       *)
(* writes 12 snapshots with cumulatively growing noise.                    *)
(*                                                                         *)
(* Numbers.  A corruption factor is an integer in units of 1/FacScale, a   *)
(* noise value (and a standard deviation) an integer in units of           *)
(* 1/NoiseScale, and a parameter value an integer in units of              *)
(* 1/(FacScale*NoiseScale), so that the real product add_fac * noise is an *)
(* integer.  Tensor arithmetic is floating point: every result is rounded  *)
(* to Mantissa significant bits (round to nearest, ties to even), by Fl.   *)
(*                                                                         *)
(* Strings are sequences of characters; a literal of the source that is    *)
(* never split ("_corrupted_SEED_", "corruptfac_", ".pth") is one element. *)
(***************************************************************************)
EXTENDS Integers, Sequences, FiniteSets, TLC

\* ------------------------------------------------------------- bounds
\* Number of process invocations (the first run and its re-runs with the
\* same command line).
MaxRuns == 2
\* A standard normal draw is one of -ZMax..ZMax.
ZMax == 2
\* Significant bits of the floating-point format of the model.
Mantissa == 20

\* ------------------------------------------------------------- scales
FacScale == 10^6
NoiseScale == 2 * 2
One == FacScale * NoiseScale
RngMod == 2^4

\* ------------------------------------------------------ generic helpers
Abs(x) == IF x < 0 THEN -x ELSE x

Max(a, b) == IF a >= b THEN a ELSE b

RECURSIVE SumSeq(_)
SumSeq(s) == IF s = <<>> THEN 0 ELSE Head(s) + SumSeq(Tail(s))

\* Number of bits of a natural number (0 for 0).
RECURSIVE Bits(_)
Bits(a) == IF a = 0 THEN 0 ELSE 1 + Bits(a \div 2)

\* Floor of the square root.
ISqrt(n) == CHOOSE r \in 0..n : r * r <= n /\ (r + 1) * (r + 1) > n

\* An optional value is a sequence of length 0 (none) or 1.
None == <<>>
Some(x) == <<x>>
IsSome(o) == Len(o) = 1
Get(o) == o[1]

\* ------------------------------------------------- floating point
\* Spacing of the floating-point numbers around magnitude a.
Ulp(a) == 2^Max(0, Bits(a) - Mantissa)

\* Round to nearest, ties to even, keeping Mantissa significant bits.
Fl(x) ==
    LET a == Abs(x)
        u == Ulp(a)
        q == a \div u
        r == a % u
        up == (2 * r > u) \/ (2 * r = u /\ q % 2 = 1)
        m == (IF up THEN q + 1 ELSE q) * u
    IN  IF x < 0 THEN -m ELSE m

\* ------------------------------------------------- corruption factors
\* np.logspace(-4.3, -0.3, 12): 10^(-4.3 + 4k/11), in units of 1/FacScale.
NumFacs == 12

corrpution_facs ==
    SubSeq(<<50, 116, 267, 618, 1427, 3297, 7618, 17598, 40653, 93913,
             216952, 501187>>, 1, NumFacs)

\* np.diff: the successive differences.
cdiff == [j \in 1..(Len(corrpution_facs) - 1) |->
              corrpution_facs[j + 1] - corrpution_facs[j]]

\* Lines 49-52: the factor added at step i (0-based).
AddFacAlwaysFactor(i) == corrpution_facs[i + 1]

AddFac(i) == IF i = 0 THEN corrpution_facs[1] ELSE cdiff[i]

\* range(0, corrpution_facs.shape[0])
NumStepsOneShort == Len(corrpution_facs) - 1

NumSteps == Len(corrpution_facs)

\* ------------------------------------------------------------ strings
DigitChars == <<"0", "1", "2", "3", "4", "5", "6", "7", "8", "9">>

IsDigit(c) == \E d \in 1..10 : DigitChars[d] = c

DigitVal(c) == (CHOOSE d \in 1..10 : DigitChars[d] = c) - 1

RECURSIVE NatToStr(_)
NatToStr(n) ==
    IF n < 10 THEN <<DigitChars[n + 1]>>
    ELSE NatToStr(n \div 10) \o <<DigitChars[(n % 10) + 1]>>

\* str(int), as the f-strings of lines 29 and 45 format SEED and i.
IntToStr(n) == IF n < 0 THEN <<"-">> \o NatToStr(-n) ELSE NatToStr(n)

RECURSIVE DigitsVal(_, _)
DigitsVal(s, acc) ==
    IF s = <<>> THEN acc ELSE DigitsVal(Tail(s), 10 * acc + DigitVal(Head(s)))

\* int(text), argparse's type=int: an optional sign and at least one digit
\* (leading zeros allowed); None when int() raises ValueError.
ParseInt(s) ==
    LET signed == s /= <<>> /\ Head(s) \in {"-", "+"}
        digits == IF signed THEN Tail(s) ELSE s
    IN  IF digits /= <<>> /\ \A k \in 1..Len(digits) : IsDigit(digits[k])
        THEN Some(IF signed /\ Head(s) = "-" THEN -DigitsVal(digits, 0)
                  ELSE DigitsVal(digits, 0))
        ELSE None

\* A variant of int() that yields 0 where int() raises.
ParseIntLenient(s) == IF IsSome(ParseInt(s)) THEN ParseInt(s) ELSE Some(0)

\* type=int of --seed (line 16).
SeedType(s) == ParseInt(s)

\* base_model_name.split(".")[0]: the text before the first "." (line 28).
RECURSIVE SplitDotFirst(_)
SplitDotFirst(s) ==
    IF s = <<>> \/ Head(s) = "." THEN <<>>
    ELSE <<Head(s)>> \o SplitDotFirst(Tail(s))

\* -------------------------------------------------------------- paths
\* A path is its text, as pathlib normalises it: an absolute path starts
\* with "/", a relative one is taken from the current directory.
IsAbsolute(p) == p /= <<>> /\ Head(p) = "/"

RECURSIVE StripDotSlash(_)
StripDotSlash(s) ==
    IF Len(s) >= 2 /\ s[1] = "." /\ s[2] = "/"
    THEN StripDotSlash(SubSeq(s, 3, Len(s)))
    ELSE IF s = <<>> THEN <<".">> ELSE s

\* Path("./") / s (lines 24, 27, 29): an absolute s replaces the base; a
\* relative one is kept, without its leading "./" components.
PathJoinCwd(s) == IF IsAbsolute(s) THEN s ELSE StripDotSlash(s)

\* Line 29: f"{tmp}_corrupted_SEED_{SEED}" joined to base_model_loc.
CorruptedDirName(name, seed) ==
    SplitDotFirst(name) \o <<"_corrupted_SEED_">> \o IntToStr(seed)

CorruptedModelDir(name, seed) == PathJoinCwd(CorruptedDirName(name, seed))

\* Line 27.
BaseModelFile(name) == PathJoinCwd(name)

\* str(np.float64) of a corruption factor: the shortest text that reads back
\* as the same number; here the decimal text of the scaled integer.
FormatFac(f) == IntToStr(f)

\* Line 45: f"corruptfac_{corrpution_facs[i]}_{i}.pth", for the 0-based i.
CfacFilePaired(i) ==
    <<"corruptfac_">> \o FormatFac(corrpution_facs[(i \div 2) + 1]) \o <<"_">>
        \o IntToStr(i \div 2) \o <<".pth">>

CfacFile(i) ==
    <<"corruptfac_">> \o FormatFac(corrpution_facs[i + 1]) \o <<"_">>
        \o IntToStr(i) \o <<".pth">>

\* ----------------------------------------------------- random generator
\* The process-wide generator: a state in 0..RngMod-1.
NextRng(s) == (5 * s + 3) % RngMod

Draw(s) == (s % (2 * ZMax + 1)) - ZMax

\* torch.manual_seed(SEED) (line 23): the state becomes a function of the
\* seed alone.
ManualSeedKeepsState(rng, seed) == rng

ManualSeed(rng, seed) == seed % RngMod

RECURSIVE RngAfter(_, _)
RngAfter(s, n) == IF n = 0 THEN s ELSE RngAfter(NextRng(s), n - 1)

\* torch.normal(0.0, std, shape) (line 41): one draw per element, each
\* std times a standard normal draw.
RECURSIVE Normal(_, _, _)
Normal(s, std, n) ==
    IF n = 0 THEN <<>>
    ELSE <<std * Draw(NextRng(s))>> \o Normal(NextRng(s), std, n - 1)

\* ------------------------------------------------------------ tensors
\* torch.std (line 39): the sample standard deviation (n - 1 in the
\* denominator) in units of 1/NoiseScale; None (NaN) for fewer than two
\* elements.
Std(t) ==
    LET n == Len(t)
        y == [k \in 1..n |-> t[k] \div FacScale]
        s == SumSeq(y)
        d == [k \in 1..n |-> (n * y[k] - s) * (n * y[k] - s)]
    IN  IF n < 2 THEN None
        ELSE Some(ISqrt(SumSeq(d) \div (n * n * (n - 1))))

\* Line 54: param + add_fac * noise, elementwise, each operation rounded.
AddScaled(t, fac, noise) ==
    [k \in 1..Len(t) |-> Fl(t[k] + Fl(fac * noise[k]))]

\* noise_arrs[ct] of line 54, for the 0-based ct.
NoiseForFirst(arrs, ct) == arrs[1]

NoiseFor(arrs, ct) == arrs[ct + 1]

\* -------------------------------------------------------- file system
\* The file system maps the paths that exist to nodes.  A node is a
\* directory (with its entries, by name), a deployed model file (with its
\* parameters and metadata) or a file of other content.  Every node carries
\* the number of the run that created it (0: it was there before the first
\* run), which tells a file from an equal file written later in its place.
NoEntries == <<>>

DirNode(entries, born) ==
    [kind |-> "dir", entries |-> entries, params |-> <<>>, meta |-> "",
     born |-> born]

ModelNode(params, meta, born) ==
    [kind |-> "model", entries |-> NoEntries, params |-> params,
     meta |-> meta, born |-> born]

OtherNode ==
    [kind |-> "other", entries |-> NoEntries, params |-> <<>>, meta |-> "",
     born |-> 0]

Without(f, x) == [y \in (DOMAIN f) \ {x} |-> f[y]]

With(f, x, v) == (x :> v) @@ Without(f, x)

\* shutil.rmtree(dir) (line 31) and dir.mkdir() (line 32).
RmTree(tree, d) == Without(tree, d)

MkDir(tree, d, r) == With(tree, d, DirNode(NoEntries, r))

\* Lines 30-32: remove the directory when it exists, then create it.
PrepareDirKeepExisting(tree, d, r) ==
    IF d \in DOMAIN tree THEN tree ELSE MkDir(tree, d, r)

PrepareDirNoRecreate(tree, d, r) ==
    IF d \in DOMAIN tree THEN RmTree(tree, d) ELSE MkDir(tree, d, r)

PrepareDirFs(tree, d, r) ==
    IF d \in DOMAIN tree THEN MkDir(RmTree(tree, d), d, r)
    ELSE MkDir(tree, d, r)

\* os.remove(cfac_file) (line 47).
RemoveEntry(tree, d, name) ==
    [tree EXCEPT ![d].entries = Without(@, name)]

\* torch.jit.save(model, cfac_file, _extra_files=metadata_dict) (line 61):
\* what is written.
SnapshotWithoutMetadata(params, meta, r) == ModelNode(params, "", r)

Snapshot(params, meta, r) == ModelNode(params, meta, r)

WriteEntry(tree, d, name, node) ==
    [tree EXCEPT ![d].entries = With(@, name, node)]

\* ------------------------------------------------------------- inputs
SeedTexts == {<<"7">>, <<"0", "7">>, <<"-", "1">>, <<"x">>}

ModelNames ==
    {<<"m", ".", "p">>, <<"m", ".", "x", ".", "p">>, <<"n">>,
     <<"/", "m", ".", "p">>, <<".", "/", "m", ".", "p">>}

\* A command line: each of --seed and --modelname given (Some) or not.
Argvs ==
    [seed : {None} \cup {Some(t) : t \in SeedTexts},
     modelname : {None} \cup {Some(n) : n \in ModelNames}]

\* What the model file named on the command line holds.
ModelFiles ==
    {ModelNode(<< <<One, 3 * One>>, <<0, 2 * One, -One>> >>, "cfgA", 0),
     ModelNode(<< <<2 * One, 2 * One>>, <<-One, One>> >>, "cfgB", 0),
     ModelNode(<< <<One, 2 * One>>, <<3 * One>> >>, "cfgC", 0),
     OtherNode}

\* What is at the output directory's path before the first run: nothing, a
\* directory with unrelated entries and a stale snapshot, or a plain file.
StaleDir ==
    DirNode((<<"notes">> :> OtherNode)
            @@ (CfacFile(0) :> ModelNode(<< <<0, 0>> >>, "old", 0)), 0)

PreKinds == {"absent", "dir", "file"}

\* The state of the generator before line 23 is whatever the imports left.
AmbientRngs == {1, 2}

InitialFs(a, file, hasFile, pre) ==
    LET named == IsSome(a.modelname)
        name == Get(a.modelname)
        seeded == IsSome(a.seed) /\ IsSome(ParseInt(Get(a.seed)))
        d == CorruptedModelDir(name, Get(ParseInt(Get(a.seed))))
        files == IF named /\ hasFile THEN (BaseModelFile(name) :> file)
                 ELSE <<>>
        dirs == IF named /\ seeded /\ pre /= "absent"
                THEN (d :> IF pre = "dir" THEN StaleDir ELSE OtherNode)
                ELSE <<>>
    IN  dirs @@ files

\* -------------------------------------------------------------- state
VARIABLES
    argv,                 \* the command line of every run
    run,                  \* number of the current invocation
    pc,                   \* position of the script
    status,               \* "running", or how the process ended
    SEED,                 \* args.seed (line 21)
    base_model_name,      \* args.modelname (line 26)
    base_model_file,      \* line 27
    corrupted_model_dir,  \* line 29
    rng,                  \* state of torch's global generator
    fs,                   \* the file system
    model,                \* the parameters of the loaded model, in order
    metadata_dict,        \* the metadata returned by the loader
    noise_arrs,           \* line 14
    i,                    \* index of the outer loop (line 44)
    ct,                   \* index of the inner loop (line 53)
    cfac_file,            \* line 45
    add_fac,              \* lines 49-52
    orig,                 \* history: the parameters as loaded
    log,                  \* history: the snapshots saved by this run
    removed,              \* history: os.remove calls of this run
    incr,                 \* history: additions made to each parameter
    fs0,                  \* history: the file system when this run started
    prev                  \* history: the previous run

vars ==
    <<argv, run, pc, status, SEED, base_model_name, base_model_file,
      corrupted_model_dir, rng, fs, model, metadata_dict, noise_arrs, i, ct,
      cfac_file, add_fac, orig, log, removed, incr, fs0, prev>>

NoPath == <<>>

NoPrev ==
    [status |-> "none", seed |-> 0, orig |-> <<>>, noise |-> <<>>,
     log |-> <<>>]

\* The variables of a process that has just started.
Fresh ==
    /\ pc' = "parse"
    /\ status' = "running"
    /\ SEED' = 0
    /\ base_model_name' = <<>>
    /\ base_model_file' = NoPath
    /\ corrupted_model_dir' = NoPath
    /\ model' = <<>>
    /\ metadata_dict' = ""
    /\ noise_arrs' = <<>>
    /\ i' = 0
    /\ ct' = 0
    /\ cfac_file' = <<>>
    /\ add_fac' = 0
    /\ orig' = <<>>
    /\ log' = <<>>
    /\ removed' = 0
    /\ incr' = <<>>

Init ==
    /\ argv \in Argvs
    /\ run = 1
    /\ pc = "parse"
    /\ status = "running"
    /\ SEED = 0
    /\ base_model_name = <<>>
    /\ base_model_file = NoPath
    /\ corrupted_model_dir = NoPath
    /\ rng \in AmbientRngs
    /\ \E file \in ModelFiles, hasFile \in BOOLEAN, pre \in PreKinds :
           fs = InitialFs(argv, file, hasFile, pre)
    /\ model = <<>>
    /\ metadata_dict = ""
    /\ noise_arrs = <<>>
    /\ i = 0
    /\ ct = 0
    /\ cfac_file = <<>>
    /\ add_fac = 0
    /\ orig = <<>>
    /\ log = <<>>
    /\ removed = 0
    /\ incr = <<>>
    /\ fs0 = fs
    /\ prev = NoPrev

Exit(how) ==
    /\ pc' = "exit"
    /\ status' = how

\* Lines 15-21: parse_args().  A missing required option, or a --seed that
\* int() rejects, makes argparse print the usage and exit with code 2.
ParseArgs ==
    /\ pc = "parse"
    /\ IF /\ IsSome(argv.seed)
          /\ IsSome(argv.modelname)
          /\ IsSome(SeedType(Get(argv.seed)))
       THEN /\ SEED' = Get(SeedType(Get(argv.seed)))
            /\ pc' = "seed"
            /\ UNCHANGED status
       ELSE /\ Exit("usage")
            /\ UNCHANGED SEED
    /\ UNCHANGED <<argv, run, base_model_name, base_model_file,
                   corrupted_model_dir, rng, fs, model, metadata_dict,
                   noise_arrs, i, ct, cfac_file, add_fac, orig, log, removed,
                   incr, fs0, prev>>

\* Lines 22-29: seed the generator, compute the two paths.
SeedAndPaths ==
    /\ pc = "seed"
    /\ rng' = ManualSeed(rng, SEED)
    /\ base_model_name' = Get(argv.modelname)
    /\ base_model_file' = BaseModelFile(Get(argv.modelname))
    /\ corrupted_model_dir' = CorruptedModelDir(Get(argv.modelname), SEED)
    /\ pc' = "prepare"
    /\ UNCHANGED <<argv, run, status, SEED, fs, model, metadata_dict,
                   noise_arrs, i, ct, cfac_file, add_fac, orig, log, removed,
                   incr, fs0, prev>>

\* Lines 30-32.  shutil.rmtree raises NotADirectoryError when the path is
\* a plain file.
PrepareDir ==
    /\ pc = "prepare"
    /\ IF /\ corrupted_model_dir \in DOMAIN fs
          /\ fs[corrupted_model_dir].kind /= "dir"
       THEN /\ Exit("rmtree_error")
            /\ UNCHANGED fs
       ELSE /\ fs' = PrepareDirFs(fs, corrupted_model_dir, run)
            /\ pc' = "load"
            /\ UNCHANGED status
    /\ UNCHANGED <<argv, run, SEED, base_model_name, base_model_file,
                   corrupted_model_dir, rng, model, metadata_dict, noise_arrs,
                   i, ct, cfac_file, add_fac, orig, log, removed, incr, fs0,
                   prev>>

\* Lines 34-36: load_deployed_model raises when the file is missing or is
\* not a deployed model.
LoadModel ==
    /\ pc = "load"
    /\ IF /\ base_model_file \in DOMAIN fs
          /\ fs[base_model_file].kind = "model"
       THEN /\ model' = fs[base_model_file].params
            /\ metadata_dict' = fs[base_model_file].meta
            /\ orig' = fs[base_model_file].params
            /\ incr' = [k \in 1..Len(fs[base_model_file].params) |-> 0]
            /\ pc' = IF fs[base_model_file].params = <<>> THEN "head" ELSE "gen"
            /\ UNCHANGED status
       ELSE /\ Exit("load_error")
            /\ UNCHANGED <<model, metadata_dict, orig, incr>>
    /\ UNCHANGED <<argv, run, SEED, base_model_name, base_model_file,
                   corrupted_model_dir, rng, fs, noise_arrs, i, ct, cfac_file,
                   add_fac, log, removed, fs0, prev>>

\* Lines 38-42, one parameter: its noise tensor.  torch.normal raises for a
\* NaN standard deviation (a parameter of one element).
GenNoise ==
    /\ pc = "gen"
    /\ LET param == model[Len(noise_arrs) + 1]
           param_std == Std(param)
       IN  IF IsSome(param_std)
           THEN /\ noise_arrs' =
                       Append(noise_arrs,
                              Normal(rng, Get(param_std), Len(param)))
                /\ rng' = RngAfter(rng, Len(param))
                /\ pc' = IF Len(noise_arrs) + 1 = Len(model) THEN "head"
                         ELSE "gen"
                /\ UNCHANGED status
           ELSE /\ Exit("normal_error")
                /\ UNCHANGED <<noise_arrs, rng>>
    /\ UNCHANGED <<argv, run, SEED, base_model_name, base_model_file,
                   corrupted_model_dir, fs, model, metadata_dict, i, ct,
                   cfac_file, add_fac, orig, log, removed, incr, fs0, prev>>

\* Lines 44-52: the head of one iteration: the file name, the removal of a
\* file of that name, the factor to add.
LoopHead ==
    /\ pc = "head"
    /\ cfac_file' = CfacFile(i)
    /\ IF CfacFile(i) \in DOMAIN fs[corrupted_model_dir].entries
       THEN /\ fs' = RemoveEntry(fs, corrupted_model_dir, CfacFile(i))
            /\ removed' = removed + 1
       ELSE UNCHANGED <<fs, removed>>
    /\ add_fac' = AddFac(i)
    /\ ct' = 0
    /\ pc' = IF model = <<>> THEN "save" ELSE "inner"
    /\ UNCHANGED <<argv, run, status, SEED, base_model_name, base_model_file,
                   corrupted_model_dir, rng, model, metadata_dict, noise_arrs,
                   i, orig, log, incr, fs0, prev>>

\* Lines 53-54, one parameter.
AddNoise ==
    /\ pc = "inner"
    /\ model' = [model EXCEPT
                     ![ct + 1] = AddScaled(@, add_fac, NoiseFor(noise_arrs, ct))]
    /\ incr' = [incr EXCEPT ![ct + 1] = @ + 1]
    /\ ct' = ct + 1
    /\ pc' = IF ct + 1 = Len(model) THEN "save" ELSE "inner"
    /\ UNCHANGED <<argv, run, status, SEED, base_model_name, base_model_file,
                   corrupted_model_dir, rng, fs, metadata_dict, noise_arrs, i,
                   cfac_file, add_fac, orig, log, removed, fs0, prev>>

\* Line 61, and the step of the loop: the process ends after the last one.
Save ==
    /\ pc = "save"
    /\ IF /\ corrupted_model_dir \in DOMAIN fs
          /\ fs[corrupted_model_dir].kind = "dir"
       THEN /\ fs' = WriteEntry(fs, corrupted_model_dir, cfac_file,
                                Snapshot(model, metadata_dict, run))
            /\ log' = Append(log, [name |-> cfac_file, step |-> i, incr |-> incr,
                                   node |-> Snapshot(model, metadata_dict, run)])
            /\ i' = i + 1
            /\ IF i + 1 = NumSteps
               THEN Exit("ok")
               ELSE pc' = "head" /\ UNCHANGED status
       ELSE /\ Exit("save_error")
            /\ UNCHANGED <<fs, log, i>>
    /\ UNCHANGED <<argv, run, SEED, base_model_name, base_model_file,
                   corrupted_model_dir, rng, model, metadata_dict, noise_arrs,
                   ct, cfac_file, add_fac, orig, removed, incr, fs0, prev>>

\* The script is run again with the same command line, on the file system
\* the previous run left.
Reinvoke ==
    /\ pc = "exit"
    /\ run < MaxRuns
    /\ run' = run + 1
    /\ prev' = [status |-> status, seed |-> SEED, orig |-> orig,
                noise |-> noise_arrs, log |-> log]
    /\ rng' \in AmbientRngs
    /\ fs0' = fs
    /\ Fresh
    /\ UNCHANGED <<argv, fs>>

Next ==
    \/ ParseArgs
    \/ SeedAndPaths
    \/ PrepareDir
    \/ LoadModel
    \/ GenNoise
    \/ LoopHead
    \/ AddNoise
    \/ Save
    \/ Reinvoke

Spec == Init /\ [][Next]_vars

\* ===================================================================
\* Properties
\* ===================================================================

\* The model has been loaded by the current run.
Loaded == pc \in {"gen", "head", "inner", "save"}
              \/ status \in {"ok", "normal_error", "save_error"}

\* Every parameter has received the additions of a whole number of steps:
\* the inner loop of step LastStep has finished and that of the next step
\* has not started.
AtStepEnd == pc = "save" \/ (pc \in {"head", "exit"} /\ i >= 1)

LastStep == IF pc = "save" THEN i ELSE i - 1

\* The real number orig + corruption_factor[step] * noise, in parameter
\* units.
ExactValue(k, j, step) ==
    orig[k][j] + corrpution_facs[step + 1] * noise_arrs[k][j]

\* The same, computed afresh in floating point from the loaded value.
FreshValue(k, j, step) ==
    Fl(orig[k][j] + Fl(corrpution_facs[step + 1] * noise_arrs[k][j]))

\* The spacing of the floating-point numbers at the largest magnitude a
\* parameter element can take during the run.
UlpOfElement(k, j) ==
    Ulp(Abs(orig[k][j])
        + corrpution_facs[Len(corrpution_facs)] * Abs(noise_arrs[k][j]))

\* C1 as stated: after step i every parameter equals the fresh,
\* non-cumulative value orig + corruption_factor[i] * noise exactly.
C1_ExactlyFresh ==
    AtStepEnd =>
        \A k \in 1..Len(model) : \A j \in 1..Len(model[k]) :
            model[k][j] = FreshValue(k, j, LastStep)

\* C1 amended: after step i every parameter element is within (i + 1)
\* units in the last place of orig + corruption_factor[i] * noise: the
\* first factor and the successive differences add up to the factor, and
\* each of the i + 1 additions rounds twice by at most half a unit.
C1_WithinRounding ==
    AtStepEnd =>
        \A k \in 1..Len(model) : \A j \in 1..Len(model[k]) :
            Abs(model[k][j] - ExactValue(k, j, LastStep))
                <= (LastStep + 1) * UlpOfElement(k, j)

\* The last step has finished, with noise that is not zero and a
\* parameter that differs from the fresh value by rounding.
C1_Witness ==
    /\ status = "ok"
    /\ \E k \in 1..Len(model) : \E j \in 1..Len(model[k]) :
           /\ noise_arrs[k][j] /= 0
           /\ model[k][j] /= FreshValue(k, j, LastStep)
           /\ model[k][j] /= orig[k][j]

\* ---- reading a snapshot's file name back
\* The entries of the output directory (none when it does not exist).
OutEntries ==
    IF corrupted_model_dir \in DOMAIN fs
    THEN fs[corrupted_model_dir].entries ELSE NoEntries

OutNames == DOMAIN OutEntries

\* "corruptfac_<factor>_<index>.pth": the place of the "_" between the
\* factor and the index.
SepOf(nm) == CHOOSE q \in 2..Len(nm) : nm[q] = "_"

IsSnapshotName(nm) ==
    /\ Len(nm) >= 5
    /\ nm[1] = "corruptfac_"
    /\ nm[Len(nm)] = ".pth"
    /\ \E q \in 3..(Len(nm) - 2) : nm[q] = "_"
    /\ IsSome(ParseInt(SubSeq(nm, 2, SepOf(nm) - 1)))
    /\ IsSome(ParseInt(SubSeq(nm, SepOf(nm) + 1, Len(nm) - 1)))

FacOfName(nm) == Get(ParseInt(SubSeq(nm, 2, SepOf(nm) - 1)))

IdxOfName(nm) == Get(ParseInt(SubSeq(nm, SepOf(nm) + 1, Len(nm) - 1)))

\* C2: a run that completes normally has made exactly 12 iterations and
\* leaves exactly 12 files, whose names carry the indices 0..11 once each
\* and factors that are positive and strictly increasing with the index;
\* no run makes more than 12 iterations.
C2_TwelveFiles ==
    /\ i <= 12 /\ Len(log) <= 12
    /\ status = "ok" =>
           /\ i = 12 /\ Len(log) = 12
           /\ Cardinality(OutNames) = 12
           /\ \A nm \in OutNames : IsSnapshotName(nm)
           /\ \A idx \in 0..11 :
                  Cardinality({nm \in OutNames : IdxOfName(nm) = idx}) = 1
           /\ \A a, b \in OutNames :
                  /\ FacOfName(a) > 0
                  /\ IdxOfName(a) < IdxOfName(b) => FacOfName(a) < FacOfName(b)

\* A run has completed normally.
C2_Witness == status = "ok" /\ Cardinality(OutNames) = 12 /\ i = 12

\* ---- the output directory
\* The output directory was there, as a directory, when this run started.
DirPreExisted ==
    /\ corrupted_model_dir \in DOMAIN fs0
    /\ fs0[corrupted_model_dir].kind = "dir"

\* C3: when the output directory existed at the start, a run that
\* completes normally leaves in it exactly the 12 snapshots it wrote, each
\* a file created by this run, and no entry that was there before; already
\* when the directory has been prepared nothing of the old one is left.
C3_OnlyNewFiles ==
    /\ (DirPreExisted /\ status = "ok") =>
           /\ fs[corrupted_model_dir].born = run
           /\ OutNames = {log[j].name : j \in 1..Len(log)}
           /\ Cardinality(OutNames) = 12
           /\ \A nm \in OutNames : OutEntries[nm].born = run
    /\ (DirPreExisted /\ pc \in {"load", "gen", "head", "inner", "save"}) =>
           /\ fs[corrupted_model_dir].born = run
           /\ \A nm \in OutNames : OutEntries[nm].born = run

\* A normal completion over a directory that held an unrelated entry and
\* an older file with the name of a snapshot.
C3_Witness ==
    /\ status = "ok"
    /\ DirPreExisted
    /\ <<"notes">> \in DOMAIN fs0[corrupted_model_dir].entries
    /\ CfacFile(0) \in DOMAIN fs0[corrupted_model_dir].entries
    /\ <<"notes">> \notin OutNames

\* ---- metadata
\* C4: once loaded, the metadata dictionary stays what the model file
\* holds, and every snapshot this run has written carries exactly it.
C4_MetadataKept ==
    Loaded =>
        /\ metadata_dict = fs[base_model_file].meta
        /\ \A j \in 1..Len(log) : log[j].node.meta = fs[base_model_file].meta
        /\ \A nm \in OutNames : OutEntries[nm].meta = fs[base_model_file].meta

\* Twelve snapshots written, with metadata that is not empty.
C4_Witness ==
    /\ status = "ok"
    /\ metadata_dict = "cfgA"
    /\ Cardinality(OutNames) = 12

\* ---- noise tensors
\* All noise tensors have been generated.
NoiseDone == pc \in {"head", "inner", "save"} \/ status \in {"ok", "save_error"}

\* State part of C5: while the noise is generated no parameter has been
\* changed yet; afterwards there is one noise tensor per parameter, of the
\* parameter's shape, each element a draw scaled by the standard deviation
\* of the parameter as loaded.
C5_State ==
    /\ pc = "gen" => (model = orig /\ Len(noise_arrs) < Len(model))
    /\ Len(noise_arrs) <= Len(model)
    /\ \A k \in 1..Len(noise_arrs) :
           /\ Len(noise_arrs[k]) = Len(orig[k])
           /\ IsSome(Std(orig[k]))
           /\ \A j \in 1..Len(noise_arrs[k]) :
                  \E z \in (-ZMax)..ZMax :
                      noise_arrs[k][j] = Get(Std(orig[k])) * z
    /\ NoiseDone => Len(noise_arrs) = Len(model)

\* Step part of C5: a step of the corruption loop leaves the noise tensors
\* and the generator alone, and an addition changes the ct-th parameter
\* alone, by the rounded multiple of the ct-th noise tensor.
C5_Step ==
    (pc \in {"head", "inner", "save"}) =>
        /\ noise_arrs' = noise_arrs
        /\ rng' = rng
        /\ pc = "inner" =>
               /\ model'[ct + 1] =
                      [j \in 1..Len(model[ct + 1]) |->
                           Fl(model[ct + 1][j]
                              + Fl(add_fac * noise_arrs[ct + 1][j]))]
               /\ \A k \in 1..Len(model) : k /= ct + 1 => model'[k] = model[k]

\* C5: one noise tensor per parameter, generated after the load and
\* before any parameter changes, scaled by the original standard deviation,
\* in parameter order; the corruption steps only read them, and apply the
\* k-th tensor to the k-th parameter.
C5_NoiseOncePerParameter == [](C5_State) /\ [][C5_Step]_vars

\* A completed run whose two noise tensors differ and are not zero.
C5_Witness ==
    /\ status = "ok"
    /\ Len(noise_arrs) = 2
    /\ noise_arrs[1] /= noise_arrs[2]
    /\ \E j \in 1..Len(noise_arrs[1]) : noise_arrs[1][j] /= 0
    /\ model[2] /= orig[2]

\* ---- determinism
\* The previous run completed, with the seed and the model of this one.
SameInputsAsPrev ==
    /\ prev.status = "ok"
    /\ Loaded
    /\ prev.seed = SEED
    /\ prev.orig = orig

\* C6: a run with the seed and the model of a completed earlier run
\* generates the same noise tensors, and every snapshot it writes has the
\* name, the parameters and the metadata of the earlier run's snapshot of
\* that step, whatever the generator held before it was seeded.
C6_SameSeedSameOutput ==
    SameInputsAsPrev =>
        /\ Len(noise_arrs) <= Len(prev.noise)
        /\ \A k \in 1..Len(noise_arrs) : noise_arrs[k] = prev.noise[k]
        /\ NoiseDone => noise_arrs = prev.noise
        /\ Len(log) <= Len(prev.log)
        /\ \A j \in 1..Len(log) :
               /\ log[j].name = prev.log[j].name
               /\ log[j].node.params = prev.log[j].node.params
               /\ log[j].node.meta = prev.log[j].node.meta

\* A second completed run, after a first one, with noise that is not zero.
C6_Witness ==
    /\ run = 2
    /\ status = "ok"
    /\ SameInputsAsPrev
    /\ Len(log) = 12
    /\ \E k \in 1..Len(noise_arrs) : \E j \in 1..Len(noise_arrs[k]) :
           noise_arrs[k][j] /= 0

\* ---- argument errors
\* A text that is an optional sign followed by decimal digits.
IsIntegerText(t) ==
    \E d \in {t, IF t = <<>> THEN t ELSE Tail(t)} :
        /\ d /= <<>>
        /\ (d = t \/ Head(t) \in {"+", "-"})
        /\ \A q \in 1..Len(d) : d[q] \in {DigitChars[c] : c \in 1..10}

BadArguments ==
    \/ ~IsSome(argv.seed)
    \/ ~IsSome(argv.modelname)
    \/ ~IsIntegerText(Get(argv.seed))

\* C7: with --seed or --modelname missing, or a --seed that is no
\* integer, the process only parses and exits with the usage error: the
\* file system stays as it was, nothing is loaded and nothing is written.
C7_NoIoOnArgumentError ==
    BadArguments =>
        /\ pc \in {"parse", "exit"}
        /\ pc = "exit" => status = "usage"
        /\ fs = fs0
        /\ model = <<>> /\ orig = <<>>
        /\ log = <<>>
        /\ corrupted_model_dir = NoPath

\* The parser has rejected a --seed that is not an integer, with a model
\* file present.
C7_Witness ==
    /\ status = "usage"
    /\ argv.seed = Some(<<"x">>)
    /\ IsSome(argv.modelname)
    /\ BaseModelFile(Get(argv.modelname)) \in DOMAIN fs

\* ---- the name of the output directory
\* The text of s before its first "." (all of s when it has none).
BeforeFirstDot(s) ==
    IF \E q \in 1..Len(s) : s[q] = "."
    THEN SubSeq(s, 1, (CHOOSE q \in 1..Len(s) :
                          s[q] = "." /\ \A r \in 1..(q - 1) : s[r] /= ".") - 1)
    ELSE s

\* C8 as stated: for every model name and seed the output directory is
\* <basename>_corrupted_SEED_<seed> under the current directory, <basename>
\* the text of --modelname before its first "."; two names with the same
\* such text give the same directory.
C8_DirUnderCurrentDirectory ==
    (pc \notin {"parse", "seed"} /\ status /= "usage") =>
        /\ corrupted_model_dir =
               BeforeFirstDot(Get(argv.modelname)) \o <<"_corrupted_SEED_">>
                   \o IntToStr(SEED)
        /\ ~IsAbsolute(corrupted_model_dir)
        /\ \A other \in ModelNames :
               BeforeFirstDot(other) = BeforeFirstDot(Get(argv.modelname))
                   => CorruptedModelDir(other, SEED) = corrupted_model_dir

\* ---- the life of a snapshot file
\* C9: no snapshot name is written twice; the snapshot of step i is written
\* when every parameter has received exactly i + 1 additions; every
\* snapshot written so far is still in the directory as it was written;
\* and the delete-if-exists check never finds a file.
C9_WrittenOnceNeverChanged ==
    /\ removed = 0
    /\ pc = "head" => CfacFile(i) \notin OutNames
    /\ pc = "save" => \A k \in 1..Len(incr) : incr[k] = i + 1
    /\ pc = "inner" =>
           \A k \in 1..Len(incr) : incr[k] = IF k <= ct THEN i + 1 ELSE i
    /\ \A a, b \in 1..Len(log) : log[a].name = log[b].name => a = b
    /\ \A j \in 1..Len(log) :
           /\ log[j].step = j - 1
           /\ \A k \in 1..Len(log[j].incr) : log[j].incr[k] = j
           /\ log[j].name \in OutNames
           /\ OutEntries[log[j].name] = log[j].node

\* A completed run: twelve snapshots written, none removed.
C9_Witness ==
    /\ status = "ok"
    /\ Len(log) = 12
    /\ removed = 0
    /\ DirPreExisted
    /\ CfacFile(0) \in DOMAIN fs0[corrupted_model_dir].entries

\* ---- a failed load
\* C10: when the load fails the output directory exists, was created by
\* this run and is empty, whatever it held before, and no snapshot has been
\* written.
C10_LoadFailureLeavesEmptyDir ==
    status = "load_error" =>
        /\ corrupted_model_dir \in DOMAIN fs
        /\ fs[corrupted_model_dir].kind = "dir"
        /\ fs[corrupted_model_dir].born = run
        /\ OutNames = {}
        /\ log = <<>>
        /\ model = <<>>

\* A failed load after the directory of an earlier run, or of someone
\* else, has been removed.
C10_Witness ==
    /\ status = "load_error"
    /\ DirPreExisted
    /\ DOMAIN fs0[corrupted_model_dir].entries /= {}
    /\ OutNames = {}

====
